---- MODULE Spec2Model ----
(***************************************************************************)
(* State-machine model of mlflow_example.ipynb: a linear notebook that     *)
(* trains SimpleNN on MNIST inside one MLflow run, logs two parameters,    *)
(* two metrics per epoch and the model, registers the model as MNISTModel  *)
(* and then loads models:/MNISTModel/1 for one inference.                  *)
(*                                                                         *)
(* The tracking store (runs, registry) outlives an execution of the        *)
(* notebook; everything else is kernel state.  Tensors are abstracted to   *)
(* small integers: the weights are one residue modulo WMod, an image is    *)
(* its batch index, logits are a function over NumClasses classes.         *)
(* Real numbers are kept exact: hyperparameters are in thousandths and an  *)
(* average is the pair <<sum, count>>.                                     *)
(***************************************************************************)
EXTENDS Integers, Sequences, FiniteSets, TLC

VARIABLES pc, exc, execs, tracking_uri, experiment, dataset,
          train_loader, test_loader, model, optimizer, run_id, e,
          remaining, i, running_loss, test_loss, runs, registry,
          loaded_model, predicted, losses, updates

vars == <<pc, exc, execs, tracking_uri, experiment, dataset,
          train_loader, test_loader, model, optimizer, run_id, e,
          remaining, i, running_loss, test_loss, runs, registry,
          loaded_model, predicted, losses, updates>>

(* ---------------------------- bounds ---------------------------------- *)
MaxTrainBatches == 2
MaxTestBatches == 2
MaxExecutions == 2
WMod == 3
NumClasses == 2

(* ----------------------- program constants ---------------------------- *)
BatchSize == 64
Epochs == 5
LearningRate == 3
Momentum == 900
LoggedLearningRate == 3
LoggedMomentum == 3
LoadVersion == 1
PredictIndex == 0

None == <<>>
Some(x) == <<x>>

Max(S) == CHOOSE m \in S : \A n \in S : n <= m

SelectLosses(ep, split) ==
  SelectSeq(losses, LAMBDA r : r.epoch = ep /\ r.split = split)

RECURSIVE SumLosses(_)
SumLosses(s) == IF s = <<>> THEN 0 ELSE Head(s).loss + SumLosses(Tail(s))

(* ------------------------- data and model ----------------------------- *)
\* datasets on disk: empty, or k-1 full batches and one sample more
DatasetSizes(maxBatches) ==
  {0} \cup {(k - 1) * BatchSize + 1 : k \in 1..maxBatches}

\* len(DataLoader(dataset, batch_size=64)): the last batch may be partial
LoaderLen(n) == (n + BatchSize - 1) \div BatchSize

\* the k-th batch of a loader: images and labels
Batch(k) == [images |-> k, labels |-> k % NumClasses]

\* SimpleNN.forward: logits, a pure function of the weights and the input
Forward(w, x) == [c \in 0..(NumClasses - 1) |-> (w * (x + c) + c) % WMod]

\* nn.CrossEntropyLoss: zero when the label has the largest logit
CrossEntropyLoss(output, labels) ==
  Max({output[c] : c \in DOMAIN output}) - output[labels]

\* loss.backward(): the gradient accumulated onto grad
Backward(grad, loss) == grad + loss + 1

\* optimizer.step(): the weights move against the gradient
SGDStep(w, grad) == (w + WMod - (grad % WMod)) % WMod

\* running_loss += loss.item() and test_loss += loss.item()
AddLossNegated(total, loss) == total - loss
AddLoss(total, loss) == total + loss

\* for e in range(epochs): epoch ep was the last one
LastEpochEarly(ep) == ep + 2 >= Epochs
LastEpoch(ep) == ep + 1 >= Epochs

\* torch.argmax(logits, dim=1): the first index of the largest logit
ArgMax(logits) ==
  CHOOSE c \in DOMAIN logits :
    /\ \A d \in DOMAIN logits : logits[d] <= logits[c]
    /\ \A d \in DOMAIN logits : logits[d] = logits[c] => c <= d

(* --------------------------- tracking store --------------------------- *)
ActiveRun == run_id # 0 /\ runs[run_id].status = "RUNNING"

NewRun == [status |-> "RUNNING", params |-> {}, metrics |-> <<>>,
           artifacts |-> {}]

\* the artifact stored under runs:/<id>/<path>, or None
Artifact(id, path) ==
  IF id \in DOMAIN runs /\ \E a \in runs[id].artifacts : a.path = path
  THEN Some((CHOOSE a \in runs[id].artifacts : a.path = path).model)
  ELSE None

\* versions counted from zero
ResolveVersionZeroBased(version) ==
  IF version + 1 \in DOMAIN registry
  THEN Artifact(registry[version + 1].source.run,
                registry[version + 1].source.path)
  ELSE None

\* resolve models:/MNISTModel/<version> to the model it points at, or None
ResolveVersion(version) ==
  IF version \in DOMAIN registry
  THEN Artifact(registry[version].source.run, registry[version].source.path)
  ELSE None

(* ------------------------------- Init --------------------------------- *)
Init ==
  /\ pc = "set_tracking_uri"
  /\ exc = None
  /\ execs = 1
  /\ tracking_uri = None
  /\ experiment = None
  /\ dataset \in [train : DatasetSizes(MaxTrainBatches),
                  test : DatasetSizes(MaxTestBatches)]
  /\ train_loader = None
  /\ test_loader = None
  /\ model = None
  /\ optimizer = None
  /\ run_id = 0
  /\ e = 0
  /\ remaining = {}
  /\ i = 0
  /\ running_loss = 0
  /\ test_loss = 0
  /\ runs = <<>>
  /\ registry = <<>>
  /\ loaded_model = None
  /\ predicted = None
  /\ losses = <<>>
  /\ updates = 0

kernel == <<tracking_uri, experiment, train_loader, test_loader, model,
            optimizer, run_id, e, remaining, i, running_loss, test_loss,
            loaded_model, predicted, losses, updates>>

\* the exception is recorded but the failing step is tried again
PropagateRetry(kind) ==
  /\ pc' = pc
  /\ exc' = Some([at |-> pc, kind |-> kind])
  /\ runs' = runs
  /\ UNCHANGED <<execs, dataset, registry, kernel>>

\* an exception leaves the cell uncaught: the with-block marks the active
\* run FAILED and execution stops
Propagate(kind) ==
  /\ pc' = "halted"
  /\ exc' = Some([at |-> pc, kind |-> kind])
  /\ runs' = IF ActiveRun THEN [runs EXCEPT ![run_id].status = "FAILED"]
             ELSE runs
  /\ UNCHANGED <<execs, dataset, registry, kernel>>

Steps == {"set_tracking_uri", "set_experiment", "load_data", "init_model",
          "start_run", "log_param_lr", "log_param_momentum", "epoch",
          "train_loop", "eval", "test_loop", "log_model", "register_model",
          "end_run", "load_model", "predict"}

\* any library call may raise
Raise ==
  /\ pc \in Steps
  /\ Propagate("LibraryError")

SetTrackingUri ==
  /\ pc = "set_tracking_uri"
  /\ tracking_uri' = Some("http://localhost:5000")
  /\ pc' = "set_experiment"
  /\ UNCHANGED <<exc, execs, experiment, dataset, train_loader, test_loader,
                 model, optimizer, run_id, e, remaining, i, running_loss,
                 test_loss, runs, registry, loaded_model, predicted, losses,
                 updates>>

SetExperiment ==
  /\ pc = "set_experiment"
  /\ experiment' = Some("mnist_pytorch_experiment")
  /\ pc' = "load_data"
  /\ UNCHANGED <<exc, execs, tracking_uri, dataset, train_loader,
                 test_loader, model, optimizer, run_id, e, remaining, i,
                 running_loss, test_loss, runs, registry, loaded_model,
                 predicted, losses, updates>>

LoadData ==
  /\ pc = "load_data"
  /\ train_loader' = Some(LoaderLen(dataset.train))
  /\ test_loader' = Some(LoaderLen(dataset.test))
  /\ pc' = "init_model"
  /\ UNCHANGED <<exc, execs, tracking_uri, experiment, dataset, model,
                 optimizer, run_id, e, remaining, i, running_loss, test_loss,
                 runs, registry, loaded_model, predicted, losses, updates>>

\* SimpleNN() draws its initial weights at random
InitModel ==
  /\ pc = "init_model"
  /\ \E w \in 0..(WMod - 1) :
       model' = Some([state_dict |-> w, training |-> TRUE])
  /\ optimizer' = Some([lr |-> LearningRate, momentum |-> Momentum,
                        grad |-> 0])
  /\ pc' = "start_run"
  /\ UNCHANGED <<exc, execs, tracking_uri, experiment, dataset, train_loader,
                 test_loader, run_id, e, remaining, i, running_loss,
                 test_loss, runs, registry, loaded_model, predicted, losses,
                 updates>>

StartRun ==
  /\ pc = "start_run"
  /\ runs' = Append(runs, NewRun)
  /\ run_id' = Len(runs) + 1
  /\ pc' = "log_param_lr"
  /\ UNCHANGED <<exc, execs, tracking_uri, experiment, dataset, train_loader,
                 test_loader, model, optimizer, e, remaining, i,
                 running_loss, test_loss, registry, loaded_model, predicted,
                 losses, updates>>

LogParam(key, value) ==
  runs' = [runs EXCEPT ![run_id].params = @ \cup {<<key, value>>}]

LogParamLearningRate ==
  /\ pc = "log_param_lr"
  /\ LogParam("learning_rate", LoggedLearningRate)
  /\ pc' = "log_param_momentum"
  /\ UNCHANGED <<exc, execs, dataset, registry, kernel>>

LogParamMomentum ==
  /\ pc = "log_param_momentum"
  /\ LogParam("momentum", LoggedMomentum)
  /\ pc' = "epoch"
  /\ UNCHANGED <<exc, execs, dataset, registry, kernel>>

\* running_loss is not reset at the head of the epoch
EpochStartNoReset ==
  /\ pc = "epoch"
  /\ model' = Some([model[1] EXCEPT !.training = TRUE])
  /\ remaining' = 1..train_loader[1]
  /\ pc' = "train_loop"
  /\ UNCHANGED <<exc, execs, tracking_uri, experiment, dataset, train_loader,
                 test_loader, optimizer, run_id, e, i, running_loss,
                 test_loss, runs, registry, loaded_model, predicted, losses,
                 updates>>

\* head of the epoch loop: model.train(); running_loss = 0; a new shuffle
EpochStart ==
  /\ pc = "epoch"
  /\ model' = Some([model[1] EXCEPT !.training = TRUE])
  /\ running_loss' = 0
  /\ remaining' = 1..train_loader[1]
  /\ pc' = "train_loop"
  /\ UNCHANGED <<exc, execs, tracking_uri, experiment, dataset, train_loader,
                 test_loader, optimizer, run_id, e, i, test_loss, runs,
                 registry, loaded_model, predicted, losses, updates>>

\* one training batch, drawn from the shuffled loader: zero_grad, forward,
\* loss, backward, step, running_loss += loss.item()
TrainBatch ==
  /\ pc = "train_loop"
  /\ \E k \in remaining :
       LET zeroed == 0
           output == Forward(model[1].state_dict, Batch(k).images)
           loss == CrossEntropyLoss(output, Batch(k).labels)
           grad == Backward(zeroed, loss)
       IN /\ model' = Some([model[1] EXCEPT
                              !.state_dict = SGDStep(@, grad)])
          /\ optimizer' = Some([optimizer[1] EXCEPT !.grad = grad])
          /\ running_loss' = AddLoss(running_loss, loss)
          /\ losses' = Append(losses,
                         [epoch |-> e, split |-> "train", loss |-> loss])
          /\ remaining' = remaining \ {k}
  /\ updates' = updates + 1
  /\ pc' = "train_loop"
  /\ UNCHANGED <<exc, execs, tracking_uri, experiment, dataset, train_loader,
                 test_loader, run_id, e, i, test_loss, runs, registry,
                 loaded_model, predicted>>

\* step=e left out: every value lands on the default step 0
LogMetricDefaultStep(key, value, step) ==
  runs' = [runs EXCEPT ![run_id].metrics =
             Append(@, [key |-> key, value |-> value, step |-> 0])]

LogMetric(key, value, step) ==
  runs' = [runs EXCEPT ![run_id].metrics =
             Append(@, [key |-> key, value |-> value, step |-> step])]

\* the train loader is exhausted: average_train_loss = running_loss /
\* len(train_loader), logged at step e
LogTrainLoss ==
  /\ pc = "train_loop"
  /\ remaining = {}
  /\ IF train_loader[1] = 0
     THEN Propagate("ZeroDivisionError")
     ELSE /\ LogMetric("average_train_loss",
                       <<running_loss, train_loader[1]>>, e)
          /\ pc' = "eval"
          /\ UNCHANGED <<exc, execs, dataset, registry, kernel>>

\* model.eval(); test_loss = 0; the test loader is read in order
EvalStart ==
  /\ pc = "eval"
  /\ model' = Some([model[1] EXCEPT !.training = FALSE])
  /\ test_loss' = 0
  /\ i' = 1
  /\ pc' = "test_loop"
  /\ UNCHANGED <<exc, execs, tracking_uri, experiment, dataset, train_loader,
                 test_loader, optimizer, run_id, e, remaining, running_loss,
                 runs, registry, loaded_model, predicted, losses, updates>>

\* the test batch also runs backward and optimizer.step()
TestBatchWithStep ==
  /\ pc = "test_loop"
  /\ i <= test_loader[1]
  /\ LET output == Forward(model[1].state_dict, Batch(i).images)
         loss == CrossEntropyLoss(output, Batch(i).labels)
         grad == Backward(0, loss)
     IN /\ test_loss' = AddLoss(test_loss, loss)
        /\ losses' = Append(losses,
                       [epoch |-> e, split |-> "test", loss |-> loss])
        /\ model' = Some([model[1] EXCEPT !.state_dict = SGDStep(@, grad)])
        /\ optimizer' = Some([optimizer[1] EXCEPT !.grad = grad])
  /\ updates' = updates + 1
  /\ i' = i + 1
  /\ pc' = "test_loop"
  /\ UNCHANGED <<exc, execs, tracking_uri, experiment, dataset, train_loader,
                 test_loader, run_id, e, remaining, running_loss, runs,
                 registry, loaded_model, predicted>>

\* one test batch under torch.no_grad(): forward and loss only
TestBatch ==
  /\ pc = "test_loop"
  /\ i <= test_loader[1]
  /\ LET output == Forward(model[1].state_dict, Batch(i).images)
         loss == CrossEntropyLoss(output, Batch(i).labels)
     IN /\ test_loss' = AddLoss(test_loss, loss)
        /\ losses' = Append(losses,
                       [epoch |-> e, split |-> "test", loss |-> loss])
  /\ i' = i + 1
  /\ pc' = "test_loop"
  /\ UNCHANGED <<exc, execs, tracking_uri, experiment, dataset, train_loader,
                 test_loader, model, optimizer, run_id, e, remaining,
                 running_loss, runs, registry, loaded_model, predicted,
                 updates>>

\* the test loader is exhausted: average_test_loss = test_loss /
\* len(test_loader), logged at step e; then the next epoch or the end
LogTestLoss ==
  /\ pc = "test_loop"
  /\ i > test_loader[1]
  /\ IF test_loader[1] = 0
     THEN Propagate("ZeroDivisionError")
     ELSE /\ LogMetric("average_test_loss",
                       <<test_loss, test_loader[1]>>, e)
          /\ e' = e + 1
          /\ pc' = IF LastEpoch(e) THEN "log_model" ELSE "epoch"
          /\ UNCHANGED <<exc, execs, tracking_uri, experiment, dataset,
                         train_loader, test_loader, model, optimizer, run_id,
                         remaining, i, running_loss, test_loss, registry,
                         loaded_model, predicted, losses, updates>>

\* mlflow.pytorch.log_model(model, "mnist_model"): a serialized copy of
\* the model becomes an artifact of the active run
LogModel ==
  /\ pc = "log_model"
  /\ runs' = [runs EXCEPT ![run_id].artifacts =
                @ \cup {[path |-> "mnist_model", model |-> model[1]]}]
  /\ pc' = "register_model"
  /\ UNCHANGED <<exc, execs, dataset, registry, kernel>>

\* mlflow.register_model(runs:/<run_id>/mnist_model, "MNISTModel"): the
\* next version of the name points at the run's artifact
RegisterModel ==
  /\ pc = "register_model"
  /\ IF Artifact(run_id, "mnist_model") = None
     THEN Propagate("NotFound")
     ELSE /\ registry' = Append(registry,
               [name |-> "MNISTModel",
                source |-> [run |-> run_id, path |-> "mnist_model"]])
          /\ pc' = "end_run"
          /\ UNCHANGED <<exc, execs, dataset, runs, kernel>>

\* leaving the with-block normally ends the run
EndRun ==
  /\ pc = "end_run"
  /\ runs' = [runs EXCEPT ![run_id].status = "FINISHED"]
  /\ pc' = "load_model"
  /\ UNCHANGED <<exc, execs, dataset, registry, kernel>>

\* mlflow.pytorch.load_model("models:/MNISTModel/1")
LoadModel ==
  /\ pc = "load_model"
  /\ IF ResolveVersion(LoadVersion) = None
     THEN Propagate("NotFound")
     ELSE /\ loaded_model' = ResolveVersion(LoadVersion)
          /\ pc' = "predict"
          /\ UNCHANGED <<exc, execs, tracking_uri, experiment, dataset,
                         train_loader, test_loader, model, optimizer, run_id,
                         e, remaining, i, running_loss, test_loss, runs,
                         registry, predicted, losses, updates>>

\* predict_and_visualize(loaded_model, test_dataset, index=0)
PredictAndVisualize ==
  /\ pc = "predict"
  /\ IF PredictIndex >= dataset.test
     THEN Propagate("IndexError")
     ELSE /\ loaded_model' = Some([loaded_model[1] EXCEPT
                                     !.training = FALSE])
          /\ predicted' = Some(ArgMax(Forward(loaded_model[1].state_dict,
                                              PredictIndex + 1)))
          /\ pc' = "done"
          /\ UNCHANGED <<exc, execs, tracking_uri, experiment, dataset,
                         train_loader, test_loader, model, optimizer, run_id,
                         e, remaining, i, running_loss, test_loss, runs,
                         registry, losses, updates>>

\* the notebook is run again, in a fresh kernel, against the same store
RunAgain ==
  /\ pc = "done"
  /\ execs < MaxExecutions
  /\ execs' = execs + 1
  /\ pc' = "set_tracking_uri"
  /\ tracking_uri' = None
  /\ experiment' = None
  /\ train_loader' = None
  /\ test_loader' = None
  /\ model' = None
  /\ optimizer' = None
  /\ run_id' = 0
  /\ e' = 0
  /\ remaining' = {}
  /\ i' = 0
  /\ running_loss' = 0
  /\ test_loss' = 0
  /\ loaded_model' = None
  /\ predicted' = None
  /\ losses' = <<>>
  /\ updates' = 0
  /\ UNCHANGED <<exc, dataset, runs, registry>>

\* one execution of the notebook against an empty tracking store
Next ==
  \/ SetTrackingUri
  \/ SetExperiment
  \/ LoadData
  \/ InitModel
  \/ StartRun
  \/ LogParamLearningRate
  \/ LogParamMomentum
  \/ EpochStart
  \/ TrainBatch
  \/ LogTrainLoss
  \/ EvalStart
  \/ TestBatch
  \/ LogTestLoss
  \/ LogModel
  \/ RegisterModel
  \/ EndRun
  \/ LoadModel
  \/ PredictAndVisualize
  \/ Raise

Spec == Init /\ [][Next]_vars

\* executions of the notebook one after another against the same store
NextRerun ==
  \/ Next
  \/ RunAgain

SpecRerun == Init /\ [][NextRerun]_vars

(* ============================== claims ================================ *)
MetricKeys == {"average_train_loss", "average_test_loss"}

Metrics(id) == runs[id].metrics

MetricsAt(id, key, step) ==
  {n \in DOMAIN Metrics(id) :
     Metrics(id)[n].key = key /\ Metrics(id)[n].step = step}

\* both metrics of every epoch are in the run, once each
AllMetricsLogged(id) ==
  /\ \A n \in DOMAIN Metrics(id) :
       Metrics(id)[n].key \in MetricKeys /\ Metrics(id)[n].step \in 0..4
  /\ \A key \in MetricKeys : \A step \in 0..4 :
       Cardinality(MetricsAt(id, key, step)) = 1

Halted(step) == exc # None /\ exc[1].at = step

\* C1: an execution that completes without a failure has created exactly
\* one run, and that run holds exactly the two parameters learning_rate and
\* momentum and, for each of the two metric names, exactly one value at each
\* of the steps 0..4 and none elsewhere.
C1_OneRunTwoParamsTenMetrics ==
  pc = "done" =>
    /\ Len(runs) = execs
    /\ run_id = execs
    /\ runs[run_id].status = "FINISHED"
    /\ {p[1] : p \in runs[run_id].params} = {"learning_rate", "momentum"}
    /\ Cardinality(runs[run_id].params) = 2
    /\ AllMetricsLogged(run_id)

C1_Witness ==
  /\ pc = "done"
  /\ exc = None
  /\ Len(Metrics(run_id)) = 10
  /\ train_loader[1] = 2

\* C2: for every input, the model this execution logged with log_model and
\* the model load_model returned produce the same logits.
C2_RoundTripLogits ==
  loaded_model # None =>
    \A x \in 0..(MaxTestBatches + 1) :
      Forward(loaded_model[1].state_dict, x)
        = Forward(Artifact(run_id, "mnist_model")[1].state_dict, x)

\* C3: after exactly one register_model call, models:/MNISTModel/1 resolves
\* and the load step returns that model without a NotFound error, while
\* every other version does not resolve and a failed load returns no model.
C3_VersionOneLoads ==
  /\ Len(registry) = 1 =>
       /\ ResolveVersion(1) # None
       /\ \A v \in 0..(Len(registry) + 2) :
            v # 1 => ResolveVersion(v) = None
  /\ (pc \in {"predict", "done"} /\ Len(registry) = 1) =>
       loaded_model = ResolveVersion(1)
  /\ Halted("load_model") =>
       /\ loaded_model = None
       /\ Len(registry) = 1 => exc[1].kind # "NotFound"

C3_Witness ==
  /\ pc = "predict"
  /\ Len(registry) = 1
  /\ loaded_model # None

\* C4: once a call has raised, execution stays halted at that step: nothing
\* changes any more, so no metric, model, version, load or inference
\* follows the failure and the failing step is not run again.
C4_FailureHalts ==
  /\ [](exc # None => pc = "halted")
  /\ [][exc # None => UNCHANGED vars]_vars

C4_Witness ==
  /\ Halted("train_loop")
  /\ pc = "halted"
  /\ e = 2
  /\ Len(Metrics(run_id)) = 4
  /\ runs[run_id].status = "FAILED"
  /\ registry = <<>>

\* C5: the model is logged only after both metrics of all 5 epochs are
\* logged, it is registered only after it was logged and while its run is
\* still active, and load and inference come only after the registration.
C5_StepOrder ==
  /\ [](\A id \in DOMAIN runs :
          runs[id].artifacts # {} => AllMetricsLogged(id))
  /\ [](\A v \in DOMAIN registry :
          Artifact(registry[v].source.run, registry[v].source.path) # None)
  /\ []((loaded_model # None \/ predicted # None \/ pc = "done") =>
          \E v \in DOMAIN registry : registry[v].source.run = run_id)
  /\ [](predicted # None => loaded_model # None)
  /\ [][registry' # registry =>
          /\ ActiveRun
          /\ Artifact(run_id, "mnist_model") # None
          /\ registry' = Append(registry,
               [name |-> "MNISTModel",
                source |-> [run |-> run_id, path |-> "mnist_model"]])]_vars

C5_Witness ==
  /\ pc = "done"
  /\ predicted # None
  /\ Len(registry) = 1
  /\ runs[run_id].status = "FINISHED"

\* C6: with at least one training batch, the division that yields
\* average_train_loss never divides by zero and every logged
\* average_train_loss is a non-negative sum over a positive count.
C6_TrainLossWellDefined ==
  /\ \A id \in DOMAIN runs : \A n \in DOMAIN Metrics(id) :
       Metrics(id)[n].key = "average_train_loss" =>
         Metrics(id)[n].value[1] >= 0 /\ Metrics(id)[n].value[2] > 0
  /\ (train_loader # None /\ train_loader[1] >= 1) =>
       ~(Halted("train_loop") /\ exc[1].kind = "ZeroDivisionError")

C6_Witness ==
  /\ run_id # 0
  /\ \E n \in DOMAIN Metrics(run_id) :
       /\ Metrics(run_id)[n].key = "average_train_loss"
       /\ Metrics(run_id)[n].step = 3
       /\ Metrics(run_id)[n].value[1] > 0
       /\ Metrics(run_id)[n].value[2] = 2

\* C7: the value logged at step ep under either metric name is the sum of
\* the losses of that split's batches of epoch ep alone over the number of
\* batches of the split.
C7_PerEpochAverages ==
  run_id # 0 =>
    \A n \in DOMAIN Metrics(run_id) :
      LET m == Metrics(run_id)[n]
          split == IF m.key = "average_train_loss" THEN "train" ELSE "test"
          count == IF split = "train" THEN train_loader[1]
                   ELSE test_loader[1]
      IN /\ Len(SelectLosses(m.step, split)) = count
         /\ m.value = <<SumLosses(SelectLosses(m.step, split)), count>>

C7_Witness ==
  /\ pc = "log_model"
  /\ SumLosses(SelectLosses(0, "train")) > 0
  /\ SumLosses(SelectLosses(3, "train")) > 0
  /\ SumLosses(SelectLosses(4, "test")) > 0
  /\ Len(Metrics(run_id)) = 10

\* C8: only a training batch changes the weights, and it performs exactly
\* one optimizer step on a gradient computed from zero; evaluation,
\* logging, registration, loading and inference leave the weights of the
\* model, of the stored artifact and of the loaded model as they are, so a
\* complete execution has made 5 * len(train_loader) updates.
C8_OnlyTrainingUpdates ==
  /\ [](pc = "done" => updates = 5 * train_loader[1])
  /\ [][(model # None /\ model' # model /\ model'[1].state_dict
           # model[1].state_dict) => pc = "train_loop"]_vars
  /\ [][updates' # updates =>
          /\ pc = "train_loop" /\ pc' = "train_loop"
          /\ updates' = updates + 1
          /\ Cardinality(remaining') = Cardinality(remaining) - 1
          /\ optimizer'[1].grad
               = Backward(0, losses'[Len(losses')].loss)
          /\ model'[1].state_dict
               = SGDStep(model[1].state_dict, optimizer'[1].grad)]_vars
  /\ [][(pc = "train_loop" /\ pc' = "train_loop") =>
          updates' = updates + 1]_vars
  /\ [][(loaded_model # None /\ loaded_model' # None) =>
          loaded_model'[1].state_dict = loaded_model[1].state_dict]_vars
  /\ [][\A id \in DOMAIN runs :
          runs'[id].artifacts # {} =>
            runs[id].artifacts \in {{}, runs'[id].artifacts}]_vars

C8_Witness ==
  /\ pc = "done"
  /\ updates = 10
  /\ model[1].training = FALSE

\* C9: the model the load step returns is the version this execution's
\* register_model call created, whatever executions came before.
C9_LoadsOwnVersion ==
  loaded_model # None =>
    /\ registry[LoadVersion].source.run = run_id
    /\ loaded_model[1].state_dict
         = Artifact(run_id, "mnist_model")[1].state_dict

\* C10: the learning_rate and momentum recorded in the run are the lr and
\* momentum the optimizer trains with.
C10_LoggedParamsMatchOptimizer ==
  run_id # 0 =>
    \A p \in runs[run_id].params :
      /\ p[1] = "learning_rate" => p[2] = optimizer[1].lr
      /\ p[1] = "momentum" => p[2] = optimizer[1].momentum

====
